---------------------------- MODULE Spec2Model ----------------------------
(***************************************************************************)
(* Model of Scripts/trace_downstream.py: the D8 downstream trace of seed   *)
(* points over a flow direction raster.                                    *)
(*                                                                         *)
(* Map coordinates are integers and cell sizes are even integers, so that  *)
(* cell_width/2.0 is exact.  The flow direction array is an input that     *)
(* never changes during a run: the model draws the value of a cell the     *)
(* first time the program reads it and keeps it from then on.              *)
(***************************************************************************)
EXTENDS Integers, Sequences, FiniteSets, TLC

VARIABLES
    raster,          \* fdr_raster: height, width, cell size, upperLeft
    surface_raster,  \* "None" or the name of the surface raster
    fdr,             \* the flow direction array, on the cells read so far
    seeds,           \* the rows read_cursor has yielded so far
    pc,              \* position in trace_downstream_main (or move_to_next_pixel)
    row, col,        \* current raster indices
    last_r, last_c,  \* indices before the last move
    done,            \* loop flag
    array,           \* arcpy.Array of the current trace: sequence of points
    out,             \* rows inserted into out_feature_class
    errors,          \* messages given to arcpy.AddError
    path,            \* history: the cell each vertex of array was made at
    reads            \* history: every array index the run has read

vars == <<raster, surface_raster, fdr, seeds, pc, row, col, last_r, last_c,
          done, array, out, errors, path, reads>>

----------------------------------------------------------------------------
(* Bounds of the model *)

MaxSeeds == 2
MaxSteps == 6

----------------------------------------------------------------------------
(* Inputs *)

\* The values a flow direction raster holds (nodata is read as 0).
Codes == {0, 1, 2, 4, 8, 16, 32, 64, 128}

\* Any value an 8-bit cell can hold, for move_to_next_pixel on its own.
ByteCodes == 0..255

Raster(h, w, cw, ch, x, y) ==
    [height |-> h, width |-> w, meanCellWidth |-> cw, meanCellHeight |-> ch,
     X |-> x, Y |-> y]

\* Shapes (rows, columns) of the rasters of the general runs.
Shapes == {<<1, 1>>, <<1, 3>>, <<3, 1>>, <<2, 2>>}

\* Rasters of the general runs: cells of 10 x 6, upper left corner (100, 50).
Rasters == {Raster(s[1], s[2], 10, 6, 100, 50) : s \in Shapes}

\* The raster of the worked example: 5 x 5 cells of 10 x 10, corner (0, 100).
ExampleRaster == Raster(5, 5, 10, 10, 0, 100)

Surfaces == {"None", "fill"}

\* Seed locations of the general runs: in the first cell, in the last cell,
\* in the last cell of the first row, left of and above the corner, and one
\* cell beyond the last column and the last row.
SeedX(r, c) == r.X + c * r.meanCellWidth + r.meanCellWidth \div 2 - 1
SeedY(r, c) == r.Y - c * r.meanCellHeight - r.meanCellHeight \div 2 + 1

RasterPoints(r) ==
    {<<SeedX(r, 0), SeedY(r, 0)>>,
     <<SeedX(r, r.width - 1), SeedY(r, r.height - 1)>>,
     <<SeedX(r, r.width - 1), SeedY(r, 0)>>,
     <<SeedX(r, -2), SeedY(r, -2)>>,
     <<SeedX(r, r.width), SeedY(r, 0)>>,
     <<SeedX(r, 0), SeedY(r, r.height)>>}

ExamplePoints == {<<5, 95>>, <<15, 95>>, <<15, 85>>, <<55, 95>>, <<5, 45>>}

SeedPoints(r) == IF r = ExampleRaster THEN ExamplePoints ELSE RasterPoints(r)

\* OIDs of the input features; a cursor yields them in ascending order.
OIDs == 1..MaxSeeds

----------------------------------------------------------------------------
(* Arithmetic of the host language *)

Abs(n) == IF n < 0 THEN -n ELSE n

\* int(n / d) for a float quotient: truncation towards zero.
IntDiv(n, d) == IF n >= 0 THEN n \div d ELSE -((-n) \div d)

\* numpy index normalisation on an axis of length n: negative indices count
\* from the end, anything else outside 0..n-1 raises IndexError.
IndexOk(i, n) == -n <= i /\ i < n
NormIndex(i, n) == IF i < 0 THEN i + n ELSE i

CanRead(r, c) == IndexOk(r, raster.height) /\ IndexOk(c, raster.width)
ReadCell(r, c) == <<NormIndex(r, raster.height), NormIndex(c, raster.width)>>

\* The surface array: a different value in every cell.
SurfaceValue(name, cell) ==
    IF name = "fill" THEN 100 + cell[1] * raster.width + cell[2] ELSE 0

\* fill[row, col] for indices that can be read
fill(r, c) == SurfaceValue(surface_raster, ReadCell(r, c))

----------------------------------------------------------------------------
(* move_to_next_pixel: the next downstream neighbour for a cell value *)

\* Variants of move_to_next_pixel with one branch wrong.
move_to_next_pixel_sw(value, r, c) ==
    IF value = 1 THEN <<r, c + 1>>
    ELSE IF value = 2 THEN <<r + 1, c + 1>>
    ELSE IF value = 4 THEN <<r + 1, c>>
    ELSE IF value = 8 THEN <<r + 1, c + 1>>
    ELSE IF value = 16 THEN <<r, c - 1>>
    ELSE IF value = 32 THEN <<r - 1, c - 1>>
    ELSE IF value = 64 THEN <<r - 1, c>>
    ELSE IF value = 128 THEN <<r - 1, c + 1>>
    ELSE <<r, c>>

move_to_next_pixel_north(value, r, c) ==
    IF value = 1 THEN <<r, c + 1>>
    ELSE IF value = 2 THEN <<r + 1, c + 1>>
    ELSE IF value = 4 THEN <<r - 1, c>>
    ELSE IF value = 8 THEN <<r + 1, c - 1>>
    ELSE IF value = 16 THEN <<r, c - 1>>
    ELSE IF value = 32 THEN <<r - 1, c - 1>>
    ELSE IF value = 64 THEN <<r + 1, c>>
    ELSE IF value = 128 THEN <<r - 1, c + 1>>
    ELSE <<r, c>>

move_to_next_pixel(value, r, c) ==
    IF value = 1 THEN <<r, c + 1>>
    ELSE IF value = 2 THEN <<r + 1, c + 1>>
    ELSE IF value = 4 THEN <<r + 1, c>>
    ELSE IF value = 8 THEN <<r + 1, c - 1>>
    ELSE IF value = 16 THEN <<r, c - 1>>
    ELSE IF value = 32 THEN <<r - 1, c - 1>>
    ELSE IF value = 64 THEN <<r - 1, c>>
    ELSE IF value = 128 THEN <<r - 1, c + 1>>
    ELSE <<r, c>>

\* Variant of get_coord_x without the column offset.
get_coord_x_no_offset(c, cell_width, upper_left) ==
    upper_left.X + (c * cell_width) + (cell_width \div 2)

get_coord_x(c, cell_width, upper_left) ==
    upper_left.X + ((c - 1) * cell_width) + (cell_width \div 2)

get_coord_y(r, cell_height, upper_left) ==
    upper_left.Y - ((r - 1) * cell_height) - (cell_height \div 2)

Point(x, y, z) == [X |-> x, Y |-> y, Z |-> z]

\* Lines 180-181: point coordinates to raster indices.
SeedCol(pnt) == Abs(IntDiv(raster.X - pnt[1], raster.meanCellWidth))
SeedRow(pnt) == Abs(IntDiv(raster.Y - pnt[2], raster.meanCellHeight))


\* Variants of the termination test: without the sink test, and with a test
\* for a cell the trace has been at before.
IsDoneNoSink(lr, lc, r, c) ==
    \/ (r < 0 \/ r > raster.height)
    \/ (c < 0 \/ c > raster.width)

IsDoneVisited(lr, lc, r, c) ==
    \/ (lr = r /\ lc = c)
    \/ (r < 0 \/ r > raster.height)
    \/ (c < 0 \/ c > raster.width)
    \/ \E i \in 1..Len(path) : path[i] = <<r, c>>

\* Lines 216-224: the loop's termination test after a move.
IsDone(lr, lc, r, c) ==
    \/ (lr = r /\ lc = c)
    \/ (r < 0 \/ r > raster.height)
    \/ (c < 0 \/ c > raster.width)

HasSurface == surface_raster /= "None"

EmptyArray == [cell \in {} |-> 0]

\* fdr after the program has read `value` at `cell`
Reveal(cell, value) ==
    IF cell \in DOMAIN fdr THEN fdr ELSE fdr @@ (cell :> value)

\* the values the input array can hold at `cell`, given what was read before
ValuesAt(cell) == IF cell \in DOMAIN fdr THEN {fdr[cell]} ELSE Codes

----------------------------------------------------------------------------
(* trace_downstream_main *)

Init ==
    /\ raster \in Rasters
    /\ surface_raster \in Surfaces
    /\ fdr = EmptyArray
    /\ seeds = <<>>
    /\ pc = "for"
    /\ row = 0 /\ col = 0 /\ last_r = 0 /\ last_c = 0
    /\ done = FALSE
    /\ array = <<>>
    /\ out = <<>>
    /\ errors = <<>>
    /\ path = <<>>
    /\ reads = {}

\* Lines 175-196: read_cursor yields a row; the seed's cell and first vertex.
NextSeed(pnt, oid) ==
    /\ pc = "for"
    /\ Len(seeds) < MaxSeeds
    /\ \A i \in 1..Len(seeds) : seeds[i].oid < oid
    /\ seeds' = Append(seeds, [pnt |-> pnt, oid |-> oid])
    /\ col' = SeedCol(pnt)
    /\ row' = SeedRow(pnt)
    /\ IF HasSurface
       THEN /\ reads' = reads \cup {<<"fill", row', col'>>}
            /\ IF CanRead(row', col')
               THEN /\ array' = <<Point(pnt[1], pnt[2], fill(row', col'))>>
                    /\ path' = <<<<row', col'>>>>
                    /\ done' = FALSE
                    /\ pc' = "while"
               ELSE /\ array' = <<>>
                    /\ path' = <<>>
                    /\ done' = done
                    /\ pc' = "except"
       ELSE /\ reads' = reads
            /\ array' = <<Point(pnt[1], pnt[2], 0)>>
            /\ path' = <<<<row', col'>>>>
            /\ done' = FALSE
            /\ pc' = "while"
    /\ UNCHANGED <<raster, surface_raster, fdr, last_r, last_c, out, errors>>

\* Lines 197-224: one pass of the body of `while not done`.
LoopBody ==
    /\ pc = "while"
    /\ ~done
    /\ Len(array) <= MaxSteps
    /\ last_r' = row
    /\ last_c' = col
    /\ IF ~CanRead(row, col)
       THEN \* fdr[row, col] raises IndexError
            /\ reads' = reads \cup {<<"fdr", row, col>>}
            /\ pc' = "except"
            /\ UNCHANGED <<fdr, row, col, done, array, path>>
       ELSE \E value \in ValuesAt(ReadCell(row, col)) :
            LET nxt == move_to_next_pixel(value, row, col) IN
            /\ fdr' = Reveal(ReadCell(row, col), value)
            /\ row' = nxt[1]
            /\ col' = nxt[2]
            /\ IF HasSurface /\ ~CanRead(nxt[1], nxt[2])
               THEN \* fill[row, col] raises IndexError
                    /\ reads' = reads \cup {<<"fdr", row, col>>,
                                            <<"fill", nxt[1], nxt[2]>>}
                    /\ pc' = "except"
                    /\ UNCHANGED <<done, array, path>>
               ELSE /\ reads' = reads \cup {<<"fdr", row, col>>} \cup
                                 (IF HasSurface
                                  THEN {<<"fill", nxt[1], nxt[2]>>} ELSE {})
                    /\ array' = Append(array,
                          Point(get_coord_x(nxt[2], raster.meanCellWidth, raster),
                                get_coord_y(nxt[1], raster.meanCellHeight, raster),
                                IF HasSurface THEN fill(nxt[1], nxt[2]) ELSE 0))
                    /\ path' = Append(path, nxt)
                    /\ done' = IsDone(row, col, nxt[1], nxt[2])
                    /\ pc' = "while"
    /\ UNCHANGED <<raster, surface_raster, seeds, out, errors>>

\* Lines 226-229: the loop has ended; the polyline and the seed's OID are
\* inserted.
InsertRow ==
    /\ pc = "while"
    /\ done
    /\ out' = Append(out, [shape |-> array, ORIG_FID |-> seeds[Len(seeds)].oid])
    /\ pc' = "for"
    /\ UNCHANGED <<raster, surface_raster, fdr, seeds, row, col, last_r, last_c,
                   done, array, errors, path, reads>>

\* Lines 237-241: any Python error ends the run with a message.
ExceptHandler ==
    /\ pc = "except"
    /\ errors' = Append(errors, "Python error")
    /\ pc' = "end"
    /\ UNCHANGED <<raster, surface_raster, fdr, seeds, row, col, last_r, last_c,
                   done, array, out, path, reads>>

\* Line 175: read_cursor is exhausted; the function returns.
Finish ==
    /\ pc = "for"
    /\ pc' = "end"
    /\ UNCHANGED <<raster, surface_raster, fdr, seeds, row, col, last_r, last_c,
                   done, array, out, errors, path, reads>>

Next ==
    \/ \E pnt \in SeedPoints(raster), oid \in OIDs : NextSeed(pnt, oid)
    \/ LoopBody
    \/ InsertRow
    \/ ExceptHandler
    \/ Finish

Spec == Init /\ [][Next]_vars

----------------------------------------------------------------------------
(* The worked example: the 5 x 5 raster with the three cells it fixes *)

ExampleFdr == (<<0, 0>> :> 1) @@ (<<0, 1>> :> 4) @@ (<<1, 1>> :> 0)

InitExample ==
    /\ raster = ExampleRaster
    /\ surface_raster \in Surfaces
    /\ fdr = ExampleFdr
    /\ seeds = <<>>
    /\ pc = "for"
    /\ row = 0 /\ col = 0 /\ last_r = 0 /\ last_c = 0
    /\ done = FALSE
    /\ array = <<>>
    /\ out = <<>>
    /\ errors = <<>>
    /\ path = <<>>
    /\ reads = {}

SpecExample == InitExample /\ [][Next]_vars

----------------------------------------------------------------------------
(* move_to_next_pixel on its own: any cell of a raster, any 8-bit value *)

InitMove ==
    /\ raster \in Rasters
    /\ surface_raster = "None"
    /\ row \in 0..(raster.height - 1)
    /\ col \in 0..(raster.width - 1)
    /\ \E value \in ByteCodes : fdr = (<<row, col>> :> value)
    /\ seeds = <<>>
    /\ pc = "move_call"
    /\ last_r = row /\ last_c = col
    /\ done = FALSE
    /\ array = <<>>
    /\ out = <<>>
    /\ errors = <<>>
    /\ path = <<>>
    /\ reads = {}

\* Lines 199-201: the call of move_to_next_pixel(fdr, row, col).
MoveCall ==
    /\ pc = "move_call"
    /\ CanRead(row, col)
    /\ last_r' = row
    /\ last_c' = col
    /\ LET nxt == move_to_next_pixel(fdr[ReadCell(row, col)], row, col) IN
       /\ row' = nxt[1]
       /\ col' = nxt[2]
    /\ reads' = reads \cup {<<"fdr", row, col>>}
    /\ pc' = "move_ret"
    /\ UNCHANGED <<raster, surface_raster, fdr, seeds, done, array, out, errors,
                   path>>

NextMove == MoveCall

SpecMove == InitMove /\ [][NextMove]_vars


----------------------------------------------------------------------------
(* Vocabulary of the properties *)

InRange(cell) ==
    /\ 0 <= cell[1] /\ cell[1] < raster.height
    /\ 0 <= cell[2] /\ cell[2] < raster.width

LastSeed == seeds[Len(seeds)]
XY(p) == <<p.X, p.Y>>
XYs(a) == [i \in 1..Len(a) |-> XY(a[i])]

\* cellToPoint as the specification states it
CellCentre(cell) ==
    <<raster.X + (cell[2] - 1) * raster.meanCellWidth
               + raster.meanCellWidth \div 2,
      raster.Y - (cell[1] - 1) * raster.meanCellHeight
               - raster.meanCellHeight \div 2>>

\* array holds the vertices of the last seed's trace, finished or not
HasTrace == seeds /= <<>> /\ pc \in {"while", "for", "end"} /\ errors = <<>>

----------------------------------------------------------------------------
(* C1: for an in-range cell, move_to_next_pixel returns (row+dr, col+dc)    *)
(* with (dr, dc) = (0,+1) for code 1, (+1,+1) for 2, (+1,0) for 4, (+1,-1)  *)
(* for 8, (0,-1) for 16, (-1,-1) for 32, (-1,0) for 64, (-1,+1) for 128,    *)
(* and the cell unchanged for every other value.                            *)

C1_Delta(value) ==
    CASE value = 1 -> <<0, 1>>
      [] value = 2 -> <<1, 1>>
      [] value = 4 -> <<1, 0>>
      [] value = 8 -> <<1, -1>>
      [] value = 16 -> <<0, -1>>
      [] value = 32 -> <<-1, -1>>
      [] value = 64 -> <<-1, 0>>
      [] value = 128 -> <<-1, 1>>
      [] OTHER -> <<0, 0>>

C1_MoveToNextPixel ==
    pc = "move_ret" =>
        /\ InRange(<<last_r, last_c>>)
        /\ row = last_r + C1_Delta(fdr[<<last_r, last_c>>])[1]
        /\ col = last_c + C1_Delta(fdr[<<last_r, last_c>>])[2]

C1_Witness ==
    /\ pc = "move_ret"
    /\ fdr[<<last_r, last_c>>] = 8
    /\ row = last_r + 1
    /\ col = last_c - 1

----------------------------------------------------------------------------
(* C2: a trace is never empty; vertex 0 is the seed's raw location; every   *)
(* later vertex i is cellToPoint of the cell reached after i steps from the *)
(* seed's cell; the cells of consecutive vertices are identical or differ   *)
(* by at most 1 in row and in column.                                       *)

C2_TraceVertices ==
    HasTrace =>
        /\ Len(array) >= 1
        /\ Len(path) = Len(array)
        /\ XY(array[1]) = LastSeed.pnt
        /\ path[1] = <<SeedRow(LastSeed.pnt), SeedCol(LastSeed.pnt)>>
        /\ \A i \in 2..Len(array) :
              /\ path[i - 1] \in DOMAIN fdr
              /\ path[i] = move_to_next_pixel(fdr[path[i - 1]],
                                              path[i - 1][1], path[i - 1][2])
              /\ XY(array[i]) = CellCentre(path[i])
              /\ Abs(path[i][1] - path[i - 1][1]) <= 1
              /\ Abs(path[i][2] - path[i - 1][2]) <= 1
        /\ (pc = "for" => out /= <<>> /\ out[Len(out)].shape = array)

C2_Witness ==
    /\ pc = "for"
    /\ Len(out) = 2
    /\ Len(out[2].shape) >= 4
    /\ path[2][1] /= path[1][1] /\ path[2][2] /= path[1][2]
    /\ path[3] /= path[2]
    /\ XY(out[2].shape[1]) /= CellCentre(path[1])

----------------------------------------------------------------------------
(* C3: if the seed's cell is in the raster and the flow grid holds code 1   *)
(* in the seed's cell and the next k-1 cells of its row and code 0 in the   *)
(* cell k columns east (k = 0: the seed's cell is a sink), the trace has    *)
(* exactly k+2 vertices, the raw seed point first and the centre of the     *)
(* sink cell last; the loop runs until then and no error ends it.           *)

C3_EastRun(k) ==
    LET r0 == SeedRow(LastSeed.pnt)
        c0 == SeedCol(LastSeed.pnt)
    IN  /\ InRange(<<r0, c0>>)
        /\ \A j \in 0..(k - 1) :
              <<r0, c0 + j>> \in DOMAIN fdr /\ fdr[<<r0, c0 + j>>] = 1
        /\ <<r0, c0 + k>> \in DOMAIN fdr
        /\ fdr[<<r0, c0 + k>>] = 0

C3_EastRunTrace ==
    \A k \in 0..(raster.width - 1) :
        (seeds /= <<>> /\ pc \in {"while", "for", "except", "end"}
            /\ C3_EastRun(k)) =>
            /\ HasTrace
            /\ Len(array) <= k + 2
            /\ (Len(array) = k + 2) <=> done
            /\ done =>
                  /\ XY(array[1]) = LastSeed.pnt
                  /\ XY(array[k + 2]) =
                        CellCentre(<<SeedRow(LastSeed.pnt),
                                     SeedCol(LastSeed.pnt) + k>>)
            /\ (pc \in {"for", "end"} => out[Len(out)].shape = array)

C3_Witness ==
    /\ pc = "for"
    /\ seeds /= <<>>
    /\ C3_EastRun(2)
    /\ out /= <<>>
    /\ Len(out[Len(out)].shape) = 4

----------------------------------------------------------------------------
(* C4, as stated: on the 5 x 5 raster of 10 x 10 cells with upper left      *)
(* corner (0,100), code 1 at (0,0), code 4 at (0,1) and code 0 at (1,1),    *)
(* the seed at (5,95) starts at cell (0,0) and its trace is exactly the 3   *)
(* vertices [(5,95), centerOf(0,1), centerOf(1,1)].                         *)

C4_IsExample ==
    /\ raster = ExampleRaster
    /\ seeds /= <<>>
    /\ LastSeed.pnt = <<5, 95>>

C4_Original ==
    (C4_IsExample /\ pc = "while" /\ done) =>
        /\ path[1] = <<0, 0>>
        /\ XYs(array) = <<<<5, 95>>, CellCentre(<<0, 1>>), CellCentre(<<1, 1>>)>>

(* C4, amended: the trace is exactly the 4 vertices [(5,95), centerOf(0,1), *)
(* centerOf(1,1), centerOf(1,1)]: the centre of the sink cell is emitted on *)
(* arrival and again by the step without movement that ends the loop.  With *)
(* cellToPoint's offset centerOf(0,1) is (5,105) and centerOf(1,1) is       *)
(* (5,95).                                                                  *)

C4_ExampleTrace ==
    (C4_IsExample /\ pc \in {"while", "for", "except", "end"}) =>
        /\ HasTrace
        /\ path[1] = <<0, 0>>
        /\ Len(array) <= 4
        /\ (Len(array) = 4) <=> done
        /\ done =>
              /\ XYs(array) = <<<<5, 95>>, CellCentre(<<0, 1>>),
                                CellCentre(<<1, 1>>), CellCentre(<<1, 1>>)>>
              /\ XYs(array) = <<<<5, 95>>, <<5, 105>>, <<5, 95>>, <<5, 95>>>>
        /\ (pc \in {"for", "end"} => out[Len(out)].shape = array)

C4_Witness ==
    /\ C4_IsExample
    /\ pc = "for"
    /\ Len(out[Len(out)].shape) = 4
    /\ path = <<<<0, 0>>, <<0, 1>>, <<1, 1>>, <<1, 1>>>>

----------------------------------------------------------------------------
(* C5: when a run has ended, the output holds exactly one trace per seed    *)
(* the run was given, in order, each with that seed's identifier; no seed's *)
(* trace is lost because of another seed.                                   *)

C5_OneTracePerSeed ==
    pc = "end" =>
        /\ Len(out) = Len(seeds)
        /\ \A i \in 1..Len(seeds) : out[i].ORIG_FID = seeds[i].oid

----------------------------------------------------------------------------
(* C6: a seed whose starting cell lies outside the raster (row >= rows or   *)
(* col >= cols) raises no error and still gets a trace, of at most two      *)
(* vertices.                                                                *)

C6_SeedOutside ==
    /\ seeds /= <<>>
    /\ ~InRange(<<SeedRow(LastSeed.pnt), SeedCol(LastSeed.pnt)>>)

C6_OutsideSeedNoError ==
    C6_SeedOutside =>
        /\ pc /= "except"
        /\ errors = <<>>
        /\ Len(array) <= 2
        /\ (pc \in {"for", "end"} => Len(out) = Len(seeds))

----------------------------------------------------------------------------
(* C7: with a surface raster, the Z of every vertex of a trace is the       *)
(* surface value at the cell of that vertex, which is therefore a cell of   *)
(* the raster; without one, the Z of every vertex is 0.                     *)

C7_VertexZ ==
    HasTrace =>
        \A i \in 1..Len(array) :
            IF HasSurface
            THEN /\ InRange(path[i])
                 /\ array[i].Z = SurfaceValue(surface_raster, path[i])
            ELSE array[i].Z = 0

----------------------------------------------------------------------------
(* C8: when every seed's starting cell is in range, every read of the flow  *)
(* array and of the surface array is at a cell with 0 <= row < rows and     *)
(* 0 <= col < cols.                                                         *)

C8_SeedsInRange ==
    \A i \in 1..Len(seeds) :
        InRange(<<SeedRow(seeds[i].pnt), SeedCol(seeds[i].pnt)>>)

C8_ReadsInRange ==
    C8_SeedsInRange => \A rd \in reads : InRange(<<rd[2], rd[3]>>)

----------------------------------------------------------------------------
(* C9: when the seed's cell is in range and the path does not come back to  *)
(* a cell it has left, the loop stops with done true after at most          *)
(* rows*cols + 1 steps; it is not ended by an error.                        *)

C9_Revisits ==
    \E i, j \in 1..Len(path) : i + 1 < j /\ path[i] = path[j]
                                /\ path[j - 1] /= path[j]

C9_AcyclicTerminates ==
    (seeds /= <<>> /\ pc \in {"while", "except"}
        /\ InRange(<<SeedRow(LastSeed.pnt), SeedCol(LastSeed.pnt)>>)
        /\ ~C9_Revisits) =>
        /\ pc /= "except"
        /\ Len(array) - 1 <= raster.height * raster.width + 1

----------------------------------------------------------------------------
(* C10: once the trace has come back to a cell it had left (a cycle of more *)
(* than one cell), the loop never ends: done is false and stays false, and  *)
(* every further step of the program is a pass of the loop that adds a      *)
(* vertex and is again at a cell of the cycle.                              *)

C10_InCycle ==
    /\ pc = "while"
    /\ Len(path) >= 3
    /\ path[Len(path) - 1] /= path[Len(path)]
    /\ \E i \in 1..(Len(path) - 2) : path[i] = path[Len(path)]

C10_CycleNeverTerminates ==
    /\ [](C10_InCycle => ~done)
    /\ [][C10_InCycle =>
            /\ C10_InCycle'
            /\ ~done'
            /\ Len(array') = Len(array) + 1
            /\ out' = out]_vars

C10_Witness ==
    /\ C10_InCycle
    /\ Len(array) >= 6
    /\ \E a \in DOMAIN fdr :
          /\ <<a[1], a[2] + 1>> \in DOMAIN fdr
          /\ fdr[a] = 1
          /\ fdr[<<a[1], a[2] + 1>>] = 16
          /\ <<row, col>> = a

============================================================================
